---------------------------- MODULE Spec2Model ----------------------------
(***************************************************************************)
(* A model of the blind threshold Schnorr (FROST style) signing crate:     *)
(* Shamir secret sharing (src/src/shamir.rs), the FROST helpers            *)
(* (src/src/helper.rs), the hash suite (src/src/ciphersuite.rs), the       *)
(* signers and the protocol object (src/src/frost.rs) and the end-to-end   *)
(* flow of src/src/main.rs.                                                *)
(*                                                                         *)
(* The scalar field Fr of ed25519 is a prime field; the model keeps the    *)
(* field structure and shrinks the modulus to the small prime P.  The      *)
(* prime-order group of curve points is modelled by the additive group of  *)
(* the integers modulo P (every group of prime order P is isomorphic to    *)
(* it): a point is the scalar it is of the point 1, point * scalar is the  *)
(* product and point + point the sum modulo P.                             *)
(***************************************************************************)
EXTENDS Integers, Sequences, FiniteSets, TLC

VARIABLES
    \* ---- Shamir calls (shamir.rs)
    sh_pc,          \* "start" | "split" | "split_panicked" | "reconstructed" | "reconstruct_panicked"
    secret,         \* shamir_split's argument secret
    t,              \* shamir_split's argument t
    n,              \* shamir_split's argument n
    coeffs,         \* the coefficients a_1 .. a_{t-1} drawn from rng by shamir_split
    shares,         \* the Vec<ShamirShare> shamir_split returned
    picked,         \* the positions of `shares` handed to shamir_reconstruct
    reconstructed,  \* the scalar shamir_reconstruct returned
    \* ---- derive_interpolating_value calls (helper.rs)
    iv_pc,          \* "start" | "returned" | "panicked" | "returned_all"
    iv_xs,          \* argument x_coordinates
    iv_xi,          \* argument x_i
    iv_out,         \* the scalar returned
    iv_values,      \* the scalars returned to the members of iv_xs, when each of them asked for its own
    \* ---- compute_binding_factors calls (helper.rs)
    bf_pc,          \* "start" | "returned"
    bf_group_pk,    \* argument group_pk
    bf_commitments, \* argument commitment_list
    bf_msg,         \* argument msg
    bf_out,         \* the Vec<BindingFactor> returned
    \* ---- one signing session (frost.rs, main.rs)
    frost,               \* the Frost object: generator, signers, group_pk
    pc,                  \* the session's position (see Phases)
    message,             \* the message being signed
    commitments,         \* Vec<Commitment> the coordinator collected
    binding_factors,     \* Vec<BindingFactor> of compute_binding_factors
    group_commitment,    \* R of compute_group_commitment
    challenge,           \* the scalar of compute_challenge
    x_coordinates,       \* the interpolation set handed to sign
    signing_set,         \* the indices of the signers whose shares were computed
    signature_shares,    \* their shares, in the order of signing_set
    tamper,              \* how the Vec handed to signature_aggregate differs from signature_shares
    signature,           \* SchnorrSignature {R, s}
    verification_result, \* what Frost::verify returned
    sign_calls           \* the direct FrostSigner::sign calls made so far, with what each used

shamirVars == <<sh_pc, secret, t, n, coeffs, shares, picked, reconstructed>>
interpVars == <<iv_pc, iv_xs, iv_xi, iv_out, iv_values,
               bf_pc, bf_group_pk, bf_commitments, bf_msg, bf_out>>
sessionVars == <<frost, pc, message, commitments, binding_factors, group_commitment,
                 challenge, x_coordinates, signing_set, signature_shares, tamper,
                 signature, verification_result, sign_calls>>
vars == <<shamirVars, interpVars, sessionVars>>

-----------------------------------------------------------------------------
(* Bounds of the model *)

\* the draws of Frost::signature_share: secret_key is in 0 .. MaxKey, the generator
\* in 1 .. MaxGenerator, each polynomial coefficient in 0 .. MaxCoeff
MaxKey == 2
MaxGenerator == 2
MaxCoeff == 2
\* the seeds the thread's random generator may start from are 0 .. MaxSeed
MaxSeed == 0
\* a tampered signature share is off by 1 .. MaxDelta
MaxDelta == 2
\* direct sign calls: at most MaxSignCalls of them, with a challenge in 0 .. MaxChallenge
MaxSignCalls == 2
MaxChallenge == 1

\* the largest t and n a modelled shamir_split call is given
MaxN == 4
\* the longest x_coordinates list a modelled derive_interpolating_value call is given
MaxLen == 3
MaxIdentifier == 2
MaxPoint == 1
MaxCommitments == 2

-----------------------------------------------------------------------------
(* The scalar field: ark_ed25519::Fr, shrunk to the prime P *)

P == 7

ScalarField == 0 .. (P - 1)

\* ScalarField::from(i as u64)
ScalarFrom(i) == i % P

FAdd(a, b) == (a + b) % P

FSub(a, b) == (a + P - b) % P

FMul(a, b) == (a * b) % P

\* Field::pow([j])
RECURSIVE FPow(_, _)
FPow(x, j) == IF j = 0 THEN 1 ELSE FMul(x, FPow(x, j - 1))

\* Field::inverse() is None for zero; every caller unwraps it
HasInverse(a) == a # 0

FInverse(a) == CHOOSE b \in ScalarField : FMul(a, b) = 1

\* NonZeroScalar::new panics for zero
NonZeroScalars == ScalarField \ {0}

\* every sequence over S of a length in Lens
SeqsOf(S, Lens) == UNION {[1 .. k -> S] : k \in Lens}

\* the ascending sequence of the elements of a set of integers
RECURSIVE Ascending(_)
Ascending(S) ==
    IF S = {} THEN <<>>
    ELSE LET m == CHOOSE x \in S : \A y \in S : x <= y
         IN  <<m>> \o Ascending(S \ {m})

-----------------------------------------------------------------------------
(* shamir.rs *)

\* the two assert! lines of shamir_split
SplitPanics(tt, nn) == ~(tt <= nn) \/ ~(tt >= 2)

\* y = sum over j of coeffs[j] * x^j, for the coefficient list cs (cs[1] is a_0)
RECURSIVE PolyEval(_, _, _)
PolyEval(cs, x, j) ==
    IF j > Len(cs) THEN 0
    ELSE FAdd(FMul(cs[j], FPow(x, j - 1)), PolyEval(cs, x, j + 1))

\* shamir_split evaluating at x = 0 .. n-1 instead of x = 1 .. n
shamir_split_from_zero(s, tt, nn, drawn) ==
    LET cs == <<s>> \o drawn
    IN  [i \in 1 .. nn |->
            [index |-> i, secret |-> PolyEval(cs, ScalarFrom(i - 1), 1)]]

\* shamir_split raising x to j+1 instead of j
shamir_split_shifted_powers(s, tt, nn, drawn) ==
    LET cs == <<0, s>> \o drawn
    IN  [i \in 1 .. nn |->
            [index |-> i, secret |-> PolyEval(cs, ScalarFrom(i), 1)]]

shamir_split(s, tt, nn, drawn) ==
    LET cs == <<s>> \o drawn
    IN  [i \in 1 .. nn |->
            [index |-> i, secret |-> PolyEval(cs, ScalarFrom(i), 1)]]

\* numerator and denominator of the Lagrange basis of position i
RECURSIVE LagrangeNum(_, _, _)
LagrangeNum(shs, i, j) ==
    IF j > Len(shs) THEN 1
    ELSE IF i # j
         THEN FMul(FSub(0, ScalarFrom(shs[j].index)), LagrangeNum(shs, i, j + 1))
         ELSE LagrangeNum(shs, i, j + 1)

RECURSIVE LagrangeDen(_, _, _)
LagrangeDen(shs, i, j) ==
    IF j > Len(shs) THEN 1
    ELSE IF i # j
         THEN FMul(FSub(ScalarFrom(shs[i].index), ScalarFrom(shs[j].index)),
                   LagrangeDen(shs, i, j + 1))
         ELSE LagrangeDen(shs, i, j + 1)

\* denominator.inverse().unwrap() panics on a zero denominator
ReconstructPanics(shs) ==
    \E i \in 1 .. Len(shs) : ~HasInverse(LagrangeDen(shs, i, 1))

RECURSIVE ReconstructFrom(_, _)
ReconstructFrom(shs, i) ==
    IF i > Len(shs) THEN 0
    ELSE LET lagrange_coeff ==
                 FMul(LagrangeNum(shs, i, 1), FInverse(LagrangeDen(shs, i, 1)))
         IN  FAdd(FMul(shs[i].secret, lagrange_coeff), ReconstructFrom(shs, i + 1))

\* shamir_reconstruct with the numerator built from x_j instead of 0 - x_j
RECURSIVE LagrangeNumUnnegated(_, _, _)
LagrangeNumUnnegated(shs, i, j) ==
    IF j > Len(shs) THEN 1
    ELSE IF i # j
         THEN FMul(ScalarFrom(shs[j].index), LagrangeNumUnnegated(shs, i, j + 1))
         ELSE LagrangeNumUnnegated(shs, i, j + 1)

RECURSIVE ReconstructUnnegatedFrom(_, _)
ReconstructUnnegatedFrom(shs, i) ==
    IF i > Len(shs) THEN 0
    ELSE LET lagrange_coeff ==
                 FMul(LagrangeNumUnnegated(shs, i, 1), FInverse(LagrangeDen(shs, i, 1)))
         IN  FAdd(FMul(shs[i].secret, lagrange_coeff),
                  ReconstructUnnegatedFrom(shs, i + 1))

shamir_reconstruct_unnegated(shs) == ReconstructUnnegatedFrom(shs, 1)

shamir_reconstruct(shs) == ReconstructFrom(shs, 1)

-----------------------------------------------------------------------------
(* helper.rs: derive_interpolating_value *)

RECURSIVE InterpNum(_, _, _)
InterpNum(xs, x_i, j) ==
    IF j > Len(xs) THEN 1
    ELSE IF xs[j] = x_i THEN InterpNum(xs, x_i, j + 1)
         ELSE FMul(xs[j], InterpNum(xs, x_i, j + 1))

RECURSIVE InterpDen(_, _, _)
InterpDen(xs, x_i, j) ==
    IF j > Len(xs) THEN 1
    ELSE IF xs[j] = x_i THEN InterpDen(xs, x_i, j + 1)
         ELSE FMul(FSub(xs[j], x_i), InterpDen(xs, x_i, j + 1))

\* numerator / denominator panics when the denominator is zero
InterpolatingPanics(xs, x_i) == ~HasInverse(InterpDen(xs, x_i, 1))

\* a variant whose numerator does not skip x_i
derive_interpolating_value_unskipped(xs, x_i) ==
    FMul(FMul(x_i, InterpNum(xs, x_i, 1)), FInverse(InterpDen(xs, x_i, 1)))

derive_interpolating_value(xs, x_i) ==
    FMul(InterpNum(xs, x_i, 1), FInverse(InterpDen(xs, x_i, 1)))

-----------------------------------------------------------------------------
(* The group of curve points: ark_ed25519::EdwardsProjective.  Element::ZERO *)
(* is 0.                                                                     *)

Element == ScalarField

\* point + point
GAdd(a, b) == (a + b) % P

\* point * scalar
GMul(a, k) == (a * k) % P

\* serialize_compressed: the canonical bytes of a scalar or of a point, one
\* model byte per value
Serialize(v) == <<v>>

-----------------------------------------------------------------------------
(* ciphersuite.rs.  SHA-512 is modelled by a fixed mixing function over    *)
(* byte strings: what the model keeps of it is that it is a function of    *)
(* all the bytes fed to it, in order.                                      *)

RECURSIVE HashFold(_, _)
HashFold(m, h) ==
    IF m = <<>> THEN h
    ELSE LET a == (h * 31 + Head(m) + 1) % 1009
         IN  HashFold(Tail(m), (a * a + h) % 1009)

Sha512(m) == HashFold(m, 5)

\* "FROST-ED25519-SHA512-v1"
CONTEXT_STRING == <<70, 82>>

H1(m) == Sha512(CONTEXT_STRING \o <<114>> \o m)    \* b"rho"

H2(m) == Sha512(m)

H3(m) == Sha512(CONTEXT_STRING \o <<110>> \o m)    \* b"nonce"

H4(m) == Sha512(CONTEXT_STRING \o <<109>> \o m)    \* b"msg"

H5(m) == Sha512(CONTEXT_STRING \o <<99>> \o m)     \* b"com"

\* ScalarField::from_le_bytes_mod_order
from_le_bytes_mod_order(digest) == digest % P

-----------------------------------------------------------------------------
(* helper.rs *)

\* rng.fill_bytes(&mut random_bytes): the bytes the thread's generator gives
\* at its k-th use are a function of its seed and of k
RandomBytes(seed, k) == <<seed, k>>

nonce_generate(x, random_bytes) ==
    from_le_bytes_mod_order(H3(random_bytes \o Serialize(x)))

\* a Commitment is <<identifier, D, E>>, a BindingFactor <<identifier, rho>>
RECURSIVE encode_group_commitment_list(_)
encode_group_commitment_list(commitment_list) ==
    IF commitment_list = <<>> THEN <<>>
    ELSE LET c == Head(commitment_list)
         IN  Serialize(c[1]) \o Serialize(c[2]) \o Serialize(c[3])
                 \o encode_group_commitment_list(Tail(commitment_list))

\* .find(..).unwrap() panics when no entry carries the identifier
HasBindingFactor(binding_factor_list, identifier) ==
    \E k \in 1 .. Len(binding_factor_list) : binding_factor_list[k][1] = identifier

binding_factor_for_participant(binding_factor_list, identifier) ==
    LET k == CHOOSE j \in 1 .. Len(binding_factor_list) :
                 /\ binding_factor_list[j][1] = identifier
                 /\ \A i \in 1 .. (j - 1) : binding_factor_list[i][1] # identifier
    IN  binding_factor_list[k][2]

\* a variant that returns the binding factors last commitment first
compute_binding_factors_reversed(group_pk, commitment_list, msg) ==
    LET rho_input_prefix ==
            Serialize(group_pk) \o <<H4(msg)>>
                \o <<H5(encode_group_commitment_list(commitment_list))>>
        count == Len(commitment_list)
    IN  [k \in 1 .. count |->
            LET identifier == commitment_list[count + 1 - k][1]
            IN  <<identifier,
                  from_le_bytes_mod_order(H1(rho_input_prefix \o Serialize(identifier)))>>]

compute_binding_factors(group_pk, commitment_list, msg) ==
    LET group_pk_encoded == Serialize(group_pk)
        msg_hash == <<H4(msg)>>
        encoded_commitment_hash == <<H5(encode_group_commitment_list(commitment_list))>>
        rho_input_prefix == group_pk_encoded \o msg_hash \o encoded_commitment_hash
    IN  [k \in 1 .. Len(commitment_list) |->
            LET identifier == commitment_list[k][1]
                rho_input == rho_input_prefix \o Serialize(identifier)
            IN  <<identifier, from_le_bytes_mod_order(H1(rho_input))>>]

GroupCommitmentPanics(commitment_list, binding_factor_list) ==
    \E k \in 1 .. Len(commitment_list) :
        ~HasBindingFactor(binding_factor_list, commitment_list[k][1])

RECURSIVE GroupCommitmentFrom(_, _, _)
GroupCommitmentFrom(commitment_list, binding_factor_list, k) ==
    IF k > Len(commitment_list) THEN 0
    ELSE LET c == commitment_list[k]
             binding_factor == binding_factor_for_participant(binding_factor_list, c[1])
             binding_nonce == GMul(c[3], binding_factor)
         IN  GAdd(GAdd(c[2], binding_nonce),
                  GroupCommitmentFrom(commitment_list, binding_factor_list, k + 1))

compute_group_commitment(commitment_list, binding_factor_list) ==
    GroupCommitmentFrom(commitment_list, binding_factor_list, 1)

compute_challenge(R, group_pk, msg) ==
    from_le_bytes_mod_order(H2(Serialize(R) \o Serialize(group_pk) \o msg))

-----------------------------------------------------------------------------
(* frost.rs *)

\* main.rs: Frost::signature_share(3, 5)
Threshold == 3
TotalSigners == 5

SignerIndices == 1 .. TotalSigners

\* FrostSigner::new; rb_d and rb_e are the random bytes of its two nonce_generate calls
FrostSigner_new(index, x, g, is_blind, rb_d, rb_e) ==
    LET d == nonce_generate(x, rb_d)
        e == IF ~is_blind THEN nonce_generate(x, rb_e) ELSE 0
    IN  [identifier |-> ScalarFrom(index),
         x |-> x,
         d |-> d,
         e |-> e,
         commitment |-> [D |-> GMul(g, d), E |-> GMul(g, e)],
         rho |-> 0]

store_rho(signer, binding_factor) == [signer EXCEPT !.rho = binding_factor]

\* sign leaving out the binding nonce: d + lambda * x * c
sign_without_binding(signer, c, xs) ==
    LET lambda == derive_interpolating_value(xs, signer.identifier)
    IN  FAdd(signer.d, FMul(FMul(lambda, signer.x), c))

sign(signer, c, xs) ==
    LET lambda == derive_interpolating_value(xs, signer.identifier)
    IN  FAdd(FAdd(signer.d, FMul(signer.rho, signer.e)),
             FMul(FMul(lambda, signer.x), c))

\* how many nonce_generate calls were made before the signer of this index is built:
\* two by every signer that is not blind, one by every blind signer
NonceCallsBefore(index, threshold) ==
    IF index <= threshold THEN 2 * (index - 1)
    ELSE 2 * threshold + (index - 1 - threshold)

\* Frost::signature_share; secret_key, generator and drawn are what rng gives, seed
\* is the seed of the thread's generator the nonces are drawn from
signature_share(threshold, total_signers, secret_key, generator, drawn, seed) ==
    LET shamir_shares == shamir_split(secret_key, threshold, total_signers, drawn)
        k0(i) == NonceCallsBefore(shamir_shares[i].index, threshold)
    IN  [generator |-> generator,
         signers |-> [i \in 1 .. total_signers |->
                         FrostSigner_new(shamir_shares[i].index,
                                         shamir_shares[i].secret,
                                         generator,
                                         shamir_shares[i].index > threshold,
                                         RandomBytes(seed, k0(i) + 1),
                                         RandomBytes(seed, k0(i) + 2))],
         group_pk |-> GMul(generator, secret_key)]

UpdatePanics(f, binding_factor_list) ==
    \E i \in 1 .. Len(f.signers) :
        ~HasBindingFactor(binding_factor_list, f.signers[i].identifier)

update_binding_factors(f, binding_factor_list) ==
    [f EXCEPT !.signers =
        [i \in 1 .. Len(f.signers) |->
            store_rho(f.signers[i],
                      binding_factor_for_participant(binding_factor_list,
                                                     f.signers[i].identifier))]]

\* z = 0; for z_i in sig_shares, from position k on: z += z_i
RECURSIVE AggregateFrom(_, _)
AggregateFrom(sig_shares, k) ==
    IF k > Len(sig_shares) THEN 0
    ELSE FAdd(sig_shares[k], AggregateFrom(sig_shares, k + 1))

\* signature_aggregate leaving out the first share
signature_aggregate_skip_first(sig_shares) == AggregateFrom(sig_shares, 2)

signature_aggregate(sig_shares) == AggregateFrom(sig_shares, 1)

\* verify comparing one coordinate only, which a point and its negative share
verify_one_coordinate(f, sig, c) ==
    LET lhs == GMul(f.generator, sig.s)
        rhs == GAdd(sig.R, GMul(f.group_pk, c))
    IN  lhs = rhs \/ lhs = (P - rhs) % P

verify(f, sig, c) ==
    LET lhs == GMul(f.generator, sig.s)
        rhs == GAdd(sig.R, GMul(f.group_pk, c))
    IN  lhs = rhs

-----------------------------------------------------------------------------
(* The state before any call *)

ShamirIdle ==
    /\ sh_pc = "start"
    /\ secret = 0
    /\ t = 0
    /\ n = 0
    /\ coeffs = <<>>
    /\ shares = <<>>
    /\ picked = <<>>
    /\ reconstructed = 0

InterpIdle ==
    /\ iv_pc = "start"
    /\ iv_xs = <<>>
    /\ iv_xi = 1
    /\ iv_out = 0
    /\ iv_values = <<>>
    /\ bf_pc = "start"
    /\ bf_group_pk = 0
    /\ bf_commitments = <<>>
    /\ bf_msg = <<>>
    /\ bf_out = <<>>

-----------------------------------------------------------------------------
(* One signing session: the flow of main.rs, with the signer sets, the     *)
(* message and the Vec handed to signature_aggregate as inputs             *)

Messages == {<<97>>, <<98>>}

\* the signer sets a coordinator may work with: at least Threshold signers
SignerSets == {S \in SUBSET SignerIndices : Cardinality(S) >= Threshold}

\* the identifiers of the signers of S, in the order of frost.signers
IdentifiersOf(S) == [k \in 1 .. Cardinality(S) |-> frost.signers[Ascending(S)[k]].identifier]

\* the commitments of the signers of S, as main builds the list
CommitmentsOf(S) ==
    [k \in 1 .. Cardinality(S) |->
        LET signer == frost.signers[Ascending(S)[k]]
        IN  <<signer.identifier, signer.commitment.D, signer.commitment.E>>]

\* the shares of the signers of S, each computed by sign(c, xs)
SharesOf(S, c, xs) ==
    [k \in 1 .. Cardinality(S) |-> sign(frost.signers[Ascending(S)[k]], c, xs)]

NoSessionYet ==
    /\ message = <<>>
    /\ commitments = <<>>
    /\ binding_factors = <<>>
    /\ group_commitment = 0
    /\ challenge = 0
    /\ x_coordinates = <<>>
    /\ signing_set = <<>>
    /\ signature_shares = <<>>
    /\ tamper = [position |-> 0, delta |-> 0]
    /\ signature = [R |-> 0, s |-> 0]
    /\ verification_result = FALSE
    /\ sign_calls = {}

SessionIdle ==
    /\ frost = [generator |-> 1, signers |-> <<>>, group_pk |-> 0]
    /\ pc = "Idle"
    /\ NoSessionYet

\* the state after `let mut frost_protocol = Frost::signature_share(3, 5);`
\* (Element::rand gives a point of the prime-order group other than the identity)
SessionInit ==
    /\ \E secret_key \in 0 .. MaxKey, generator \in 1 .. MaxGenerator,
          drawn \in [1 .. (Threshold - 1) -> 0 .. MaxCoeff], seed \in 0 .. MaxSeed :
           frost = signature_share(Threshold, TotalSigners, secret_key, generator, drawn, seed)
    /\ pc = "Initialized"
    /\ NoSessionYet

\* main.rs step 2: the coordinator collects the commitments of the signers of S
CollectCommitments ==
    /\ pc = "Initialized"
    /\ \E S \in SignerSets :
        /\ commitments' = CommitmentsOf(S)
        /\ pc' = "NonceCommitted"
        /\ UNCHANGED <<frost, message, binding_factors, group_commitment, challenge,
                       x_coordinates, signing_set, signature_shares, tamper, signature,
                       verification_result, sign_calls, shamirVars, interpVars>>

ComputeBindingFactors ==
    /\ pc = "NonceCommitted"
    /\ \E msg \in Messages :
        /\ message' = msg
        /\ binding_factors' = compute_binding_factors(frost.group_pk, commitments, msg)
        /\ pc' = "BindingFactorsComputed"
        /\ UNCHANGED <<frost, commitments, group_commitment, challenge,
                       x_coordinates, signing_set, signature_shares, tamper, signature,
                       verification_result, sign_calls, shamirVars, interpVars>>

\* main.rs step 3: frost_protocol.update_binding_factors(binding_factors.clone())
UpdateBindingFactors ==
    /\ pc = "BindingFactorsComputed"
    /\ IF UpdatePanics(frost, binding_factors)
       THEN /\ pc' = "Panicked"
            /\ UNCHANGED frost
       ELSE /\ pc' = "BindingFactorsKnown"
            /\ frost' = update_binding_factors(frost, binding_factors)
    /\ UNCHANGED <<message, commitments, binding_factors, group_commitment, challenge,
                   x_coordinates, signing_set, signature_shares, tamper, signature,
                   verification_result, sign_calls, shamirVars, interpVars>>

ComputeGroupCommitment ==
    /\ pc = "BindingFactorsKnown"
    /\ IF GroupCommitmentPanics(commitments, binding_factors)
       THEN /\ pc' = "Panicked"
            /\ UNCHANGED group_commitment
       ELSE /\ pc' = "GroupCommitted"
            /\ group_commitment' = compute_group_commitment(commitments, binding_factors)
    /\ UNCHANGED <<frost, message, commitments, binding_factors, challenge,
                   x_coordinates, signing_set, signature_shares, tamper, signature,
                   verification_result, sign_calls, shamirVars, interpVars>>

ComputeChallenge ==
    /\ pc = "GroupCommitted"
    /\ challenge' = compute_challenge(group_commitment, frost.group_pk, message)
    /\ pc' = "ChallengeComputed"
    /\ UNCHANGED <<frost, message, commitments, binding_factors, group_commitment,
                   x_coordinates, signing_set, signature_shares, tamper, signature,
                   verification_result, sign_calls, shamirVars, interpVars>>

\* main.rs step 4: the signers of S sign; the interpolation set is every signer of
\* the protocol (as main passes it) or the signers of S
SignShares ==
    /\ pc = "ChallengeComputed"
    /\ \E S \in SignerSets : \E xs \in {IdentifiersOf(SignerIndices), IdentifiersOf(S)} :
        /\ x_coordinates' = xs
        /\ signing_set' = Ascending(S)
        /\ signature_shares' = SharesOf(S, challenge, xs)
        /\ pc' = "SignatureShared"
        /\ UNCHANGED <<frost, message, commitments, binding_factors, group_commitment,
                       challenge, tamper, signature, verification_result, sign_calls,
                       shamirVars, interpVars>>

\* the shares with the one at `position` increased by `delta`
Tampered(sig_shares, position, delta) ==
    [k \in 1 .. Len(sig_shares) |->
        IF k = position THEN FAdd(sig_shares[k], delta) ELSE sig_shares[k]]

\* main.rs step 5: signature_aggregate on the shares, as computed (delta = 0) or
\* with one of them changed on the way
SignatureAggregate ==
    /\ pc = "SignatureShared"
    /\ \E position \in 1 .. Len(signature_shares), delta \in 0 .. MaxDelta :
        /\ delta = 0 => position = 1
        /\ tamper' = [position |-> position, delta |-> delta]
        /\ signature' =
               [R |-> group_commitment,
                s |-> signature_aggregate(Tampered(signature_shares, position, delta))]
        /\ pc' = "Aggregated"
        /\ UNCHANGED <<frost, message, commitments, binding_factors, group_commitment,
                       challenge, x_coordinates, signing_set, signature_shares,
                       verification_result, sign_calls, shamirVars, interpVars>>

\* main.rs step 6
Verify ==
    /\ pc = "Aggregated"
    /\ verification_result' = verify(frost, signature, challenge)
    /\ pc' = IF verification_result' THEN "Verified" ELSE "Rejected"
    /\ UNCHANGED <<frost, message, commitments, binding_factors, group_commitment,
                   challenge, x_coordinates, signing_set, signature_shares, tamper,
                   signature, sign_calls, shamirVars, interpVars>>

Init == ShamirIdle /\ InterpIdle /\ SessionInit

Next ==
    \/ CollectCommitments
    \/ ComputeBindingFactors
    \/ UpdateBindingFactors
    \/ ComputeGroupCommitment
    \/ ComputeChallenge
    \/ SignShares
    \/ SignatureAggregate
    \/ Verify

Spec == Init /\ [][Next]_vars

-----------------------------------------------------------------------------
(* The signers' methods called directly: FrostSigner::sign takes &self and *)
(* checks nothing, so a caller may invoke it at any point of the session   *)

\* the phases in which update_binding_factors has stored every signer's rho
RhoStoredPhases == {"BindingFactorsKnown", "GroupCommitted", "ChallengeComputed"}

\* signer i's sign(c, x_coordinates) with every signer's identifier as x_coordinates;
\* rho_stored records whether store_rho had been called on the signer by then
SignCall ==
    /\ pc \in {"Initialized", "NonceCommitted", "BindingFactorsComputed"} \cup RhoStoredPhases
    /\ Cardinality(sign_calls) < MaxSignCalls
    /\ \E i \in SignerIndices, c \in 0 .. MaxChallenge :
        LET signer == frost.signers[i]
        IN  /\ sign_calls' = sign_calls \cup
                   {[identifier |-> signer.identifier,
                     d |-> signer.d,
                     e |-> signer.e,
                     challenge |-> c,
                     rho_stored |-> pc \in RhoStoredPhases,
                     share |-> sign(signer, c, IdentifiersOf(SignerIndices))]}
            /\ UNCHANGED <<frost, pc, message, commitments, binding_factors,
                           group_commitment, challenge, x_coordinates, signing_set,
                           signature_shares, tamper, signature, verification_result,
                           shamirVars, interpVars>>

NextApi ==
    \/ CollectCommitments
    \/ ComputeBindingFactors
    \/ UpdateBindingFactors
    \/ ComputeGroupCommitment
    \/ ComputeChallenge
    \/ SignCall

SpecApi == Init /\ [][NextApi]_vars

-----------------------------------------------------------------------------
(* Calls of the Shamir functions *)

InitShamir == ShamirIdle /\ InterpIdle /\ SessionIdle

\* shamir_split(s, tt, nn) with a threshold the asserts refuse
ShamirSplitRefused ==
    /\ sh_pc = "start"
    /\ \E s \in ScalarField, tt \in 0 .. MaxN, nn \in 0 .. MaxN :
        /\ SplitPanics(tt, nn)
        /\ sh_pc' = "split_panicked"
        /\ secret' = s
        /\ t' = tt
        /\ n' = nn
        /\ UNCHANGED <<coeffs, shares, picked, reconstructed, interpVars, sessionVars>>

\* shamir_split(s, tt, nn); drawn are the values ScalarField::rand(&mut rng) returns.
\* rng is ark_std::test_rng(), seeded or not as the build has it: each draw is some
\* scalar of the field
ShamirSplit ==
    /\ sh_pc = "start"
    /\ \E s \in ScalarField, tt \in 0 .. MaxN, nn \in 0 .. MaxN :
        /\ ~SplitPanics(tt, nn)
        /\ \E drawn \in [1 .. (tt - 1) -> ScalarField] :
               /\ coeffs' = drawn
               /\ shares' = shamir_split(s, tt, nn, drawn)
        /\ sh_pc' = "split"
        /\ secret' = s
        /\ t' = tt
        /\ n' = nn
        /\ UNCHANGED <<picked, reconstructed, interpVars, sessionVars>>

\* shamir_reconstruct on the shares at the positions I, in ascending order
ShamirReconstruct ==
    /\ sh_pc = "split"
    /\ \E I \in SUBSET (1 .. Len(shares)) :
        LET list == [k \in 1 .. Cardinality(I) |-> shares[Ascending(I)[k]]]
        IN  /\ picked' = Ascending(I)
            /\ IF ReconstructPanics(list)
               THEN /\ sh_pc' = "reconstruct_panicked"
                    /\ UNCHANGED reconstructed
               ELSE /\ sh_pc' = "reconstructed"
                    /\ reconstructed' = shamir_reconstruct(list)
            /\ UNCHANGED <<secret, t, n, coeffs, shares, interpVars, sessionVars>>

NextShamir == ShamirSplitRefused \/ ShamirSplit \/ ShamirReconstruct

SpecShamir == InitShamir /\ [][NextShamir]_vars

-----------------------------------------------------------------------------
(* Calls of derive_interpolating_value *)

DeriveInterpolatingValue ==
    /\ iv_pc = "start"
    /\ \E xs \in SeqsOf(NonZeroScalars, 1 .. MaxLen), x_i \in NonZeroScalars :
        /\ iv_xs' = xs
        /\ iv_xi' = x_i
        /\ IF InterpolatingPanics(xs, x_i)
           THEN /\ iv_pc' = "panicked"
                /\ UNCHANGED iv_out
           ELSE /\ iv_pc' = "returned"
                /\ iv_out' = derive_interpolating_value(xs, x_i)
        /\ UNCHANGED <<iv_values, bf_pc, bf_group_pk, bf_commitments, bf_msg, bf_out,
                       shamirVars, sessionVars>>

NextInterp == DeriveInterpolatingValue

SpecInterp == InitShamir /\ [][NextInterp]_vars

-----------------------------------------------------------------------------
(* helper.rs functions called on their own, as the signers of one session call them *)

\* the lists of k pairwise distinct members of S, in every order
DistinctSeqsOf(S, k) ==
    {xs \in [1 .. k -> S] : \A i, j \in 1 .. k : xs[i] = xs[j] => i = j}

\* every member of the interpolation set asks for its own Lagrange coefficient, as the
\* signers do in FrostSigner::sign with the x_coordinates main hands to each of them
DeriveInterpolatingValues ==
    /\ iv_pc = "start"
    /\ \E xs \in DistinctSeqsOf(NonZeroScalars, TotalSigners) :
        /\ iv_xs' = xs
        /\ IF \E k \in 1 .. Len(xs) : InterpolatingPanics(xs, xs[k])
           THEN /\ iv_pc' = "panicked"
                /\ UNCHANGED iv_values
           ELSE /\ iv_pc' = "returned_all"
                /\ iv_values' = [k \in 1 .. Len(xs) |-> derive_interpolating_value(xs, xs[k])]
        /\ UNCHANGED <<iv_xi, iv_out, bf_pc, bf_group_pk, bf_commitments, bf_msg, bf_out,
                       shamirVars, sessionVars>>

NextHelper == DeriveInterpolatingValues

SpecHelper == InitShamir /\ [][NextHelper]_vars

\* the commitments a caller may hand over: any identifiers, in any order, repeated or not
CommitmentValues ==
    (1 .. MaxIdentifier) \X (0 .. MaxPoint) \X (0 .. MaxPoint)

ComputeBindingFactorsCall ==
    /\ bf_pc = "start"
    /\ \E group_pk \in 0 .. MaxPoint, msg \in Messages,
          commitment_list \in SeqsOf(CommitmentValues, 0 .. MaxCommitments) :
        /\ bf_group_pk' = group_pk
        /\ bf_commitments' = commitment_list
        /\ bf_msg' = msg
        /\ bf_out' = compute_binding_factors(group_pk, commitment_list, msg)
        /\ bf_pc' = "returned"
    /\ UNCHANGED <<iv_pc, iv_xs, iv_xi, iv_out, iv_values, shamirVars, sessionVars>>

NextBinding == ComputeBindingFactorsCall

SpecBinding == InitShamir /\ [][NextBinding]_vars

-----------------------------------------------------------------------------
(* Properties of shamir_split and shamir_reconstruct, under SpecShamir *)

ReconstructReturned == sh_pc \in {"reconstructed", "reconstruct_panicked"}

\* C1: for every secret and every 2 <= t <= n, shamir_reconstruct on any t of the
\* shares of shamir_split(secret, t, n), whichever t they are, returns the secret.
C1_AnyThresholdSubsetReconstructs ==
    (ReconstructReturned /\ Len(picked) = t)
        => (sh_pc = "reconstructed" /\ reconstructed = secret)

\* a call on t shares that are not the first t
C1_Witness ==
    /\ sh_pc = "reconstructed"
    /\ t = 3
    /\ n = 4
    /\ picked = <<2, 3, 4>>
    /\ secret # 0
    /\ coeffs[2] # 0

\* C9 as stated: shamir_reconstruct on fewer than t shares raises no error and
\* returns a value different from the secret.
C9_FewerSharesNeverTheSecret ==
    (ReconstructReturned /\ Len(picked) < t)
        => (sh_pc = "reconstructed" /\ reconstructed # secret)

\* C9 as amended: shamir_reconstruct on fewer than t shares raises no error; on no
\* share it returns 0, and on exactly t-1 shares it returns a value different from
\* the secret if and only if the leading coefficient a_{t-1} that shamir_split drew
\* is not zero.
C9_FewerSharesNoErrorAndLeadingCoefficient ==
    (ReconstructReturned /\ Len(picked) < t)
        => /\ sh_pc = "reconstructed"
           /\ Len(picked) = 0 => reconstructed = 0
           /\ Len(picked) = t - 1 => (reconstructed # secret <=> coeffs[t - 1] # 0)

\* t-1 shares that give a wrong value
C9_Witness ==
    /\ sh_pc = "reconstructed"
    /\ t = 3
    /\ Len(picked) = 2
    /\ reconstructed # secret

\* the k-th forward differences of a list of scalars
RECURSIVE Differences(_, _)
Differences(ys, k) ==
    IF k = 0 THEN ys
    ELSE Differences([i \in 1 .. (Len(ys) - 1) |-> FSub(ys[i + 1], ys[i])], k - 1)

\* ys[1], ys[2], ... are the values at 0, 1, ... of one polynomial of degree below k
\* (for fewer than P values): their k-th forward differences vanish
ValuesOfPolynomialBelow(ys, k) ==
    LET ds == Differences(ys, k)
    IN  \A i \in 1 .. Len(ds) : ds[i] = 0

\* C10: shamir_split(secret, t, n) fails exactly when t < 2 or t > n; otherwise it
\* returns n shares with the indices 1, 2, ..., n in that order, whose values are the
\* values at the indices of one polynomial of degree at most t-1 with the constant
\* term secret.
C10_SplitContract ==
    /\ sh_pc = "split_panicked" => (t < 2 \/ t > n)
    /\ sh_pc = "split" =>
           /\ ~(t < 2 \/ t > n)
           /\ Len(shares) = n
           /\ \A i \in 1 .. n : shares[i].index = i
           /\ ValuesOfPolynomialBelow(<<secret>> \o [i \in 1 .. n |-> shares[i].secret], t)

\* a split with more shares than the threshold and a polynomial of full degree
C10_Witness ==
    /\ sh_pc = "split"
    /\ t = 3
    /\ n = 4
    /\ coeffs[2] # 0
    /\ secret # 0

-----------------------------------------------------------------------------
(* Properties of derive_interpolating_value, under SpecInterp *)

Occurrences(xs, x) == Cardinality({k \in 1 .. Len(xs) : xs[k] = x})

\* C7: derive_interpolating_value(x_coordinates, x_i) panics whenever x_i does not
\* occur in x_coordinates and whenever it occurs there more than once.
C7_PanicsUnlessExactlyOnce ==
    (iv_pc # "start" /\ Occurrences(iv_xs, iv_xi) # 1) => iv_pc = "panicked"

-----------------------------------------------------------------------------
(* Properties of the helper.rs functions called on their own, under SpecHelper and
   SpecBinding *)

RECURSIVE FSum(_)
FSum(values) ==
    IF values = <<>> THEN 0 ELSE FAdd(Head(values), FSum(Tail(values)))

AllAsked == iv_pc \in {"returned_all", "panicked"} /\ Len(iv_xs) = TotalSigners

\* C11: for every set of 5 pairwise distinct non-zero identifiers, no call of
\* derive_interpolating_value(identifiers, x_i) with x_i in the set panics, and the
\* values returned, taken over all x_i of the set, sum to 1 in the scalar field.
C11_InterpolatingValuesSumToOne ==
    AllAsked =>
        /\ iv_pc = "returned_all"
        /\ Len(iv_values) = Len(iv_xs)
        /\ FSum(iv_values) = 1

\* rho_id = H1(group_pk_enc || msg_hash || commitment_hash || id_enc) reduced to a scalar,
\* written from the three arguments and the identifier alone
RhoOf(group_pk, commitment_list, msg, identifier) ==
    from_le_bytes_mod_order(
        H1(Serialize(group_pk) \o <<H4(msg)>>
               \o <<H5(encode_group_commitment_list(commitment_list))>>
               \o Serialize(identifier)))

\* C12: compute_binding_factors(group_pk, commitments, msg) returns a list as long as
\* commitments whose k-th entry carries the identifier of the k-th commitment, and
\* whose k-th rho is fixed by (group_pk, commitments, msg) and that identifier alone,
\* so that parties calling it with equal arguments obtain identical binding factors.
C12_BindingFactorsFollowCommitments ==
    bf_pc = "returned" =>
        /\ Len(bf_out) = Len(bf_commitments)
        /\ \A k \in 1 .. Len(bf_commitments) :
            /\ bf_out[k][1] = bf_commitments[k][1]
            /\ bf_out[k][2] = RhoOf(bf_group_pk, bf_commitments, bf_msg, bf_commitments[k][1])

\* the commitments were handed over out of identifier order and the two rho differ
C12_Witness ==
    /\ bf_pc = "returned"
    /\ Len(bf_commitments) = 2
    /\ bf_commitments[1][1] > bf_commitments[2][1]
    /\ bf_out[1][2] # bf_out[2][2]

\* the five identifiers were handed over out of order and the values are not all equal
C11_Witness ==
    /\ iv_pc = "returned_all"
    /\ iv_xs = <<3, 1, 6, 2, 5>>
    /\ \E i, j \in 1 .. Len(iv_values) : iv_values[i] # iv_values[j]
    /\ \A k \in 1 .. Len(iv_values) : iv_values[k] # 0

-----------------------------------------------------------------------------
(* Properties of a signing session, under Spec *)

VerifyReturned == pc \in {"Verified", "Rejected"}

AggregateReturned == pc \in {"Aggregated", "Verified", "Rejected"}

AllIdentifiers == IdentifiersOf(SignerIndices)

\* C2 as stated: with the commitments, binding factors, R and challenge taken over
\* all 5 signers, the shares of any 3 of the 5 signers aggregate to a signature that
\* verifies.
C2_AnyThreeOfFiveVerify ==
    (/\ VerifyReturned
     /\ Len(commitments) = TotalSigners
     /\ Len(signing_set) = Threshold
     /\ tamper.delta = 0)
        => verification_result = TRUE

\* C2 as amended: with the commitments, binding factors, R and challenge taken over
\* all 5 signers, the shares of all 5 signers, each computed by sign with the 5
\* identifiers as interpolation set and summed by signature_aggregate, give a
\* signature (R, s) for which verify returns true.
C2_AllCommittedSignersVerify ==
    (/\ VerifyReturned
     /\ Len(commitments) = TotalSigners
     /\ Len(signing_set) = TotalSigners
     /\ tamper.delta = 0)
        => (verification_result = TRUE /\ pc = "Verified")

\* a verified signature of all five signers, with a key and a challenge that count
C2_Witness ==
    /\ pc = "Verified"
    /\ Len(signing_set) = TotalSigners
    /\ tamper.delta = 0
    /\ challenge # 0
    /\ frost.group_pk # 0

ThresholdSets == {S \in SUBSET SignerIndices : Cardinality(S) = Threshold}

Members(seq) == {seq[k] : k \in 1 .. Len(seq)}

\* whether this session's shares are interpolated over the signing set itself
InterpolatedOverSigningSet == x_coordinates = IdentifiersOf(Members(signing_set))

\* the scalar the shares of the signers of S aggregate to in this session: same key
\* shares, nonces, binding factors and challenge, the interpolation set chosen as
\* the session chose it for its own signing set
SessionAggregate(S) ==
    signature_aggregate(
        SharesOf(S, challenge,
                 IF InterpolatedOverSigningSet THEN IdentifiersOf(S) ELSE AllIdentifiers))

\* C3 as stated: the shares of two different 3-of-5 signer sets of one session
\* aggregate to the identical signature (R, s).
C3_SubsetsGiveIdenticalSignature ==
    (AggregateReturned /\ Len(signing_set) = Threshold /\ tamper.delta = 0)
        => \A S \in ThresholdSets :
               [R |-> group_commitment, s |-> SessionAggregate(S)] = signature

\* C3 as amended: two different 3-of-5 signer sets of one session, each interpolated
\* over itself, give the same R but in general not the same s: the s of a set S
\* satisfies g^s = (sum over S of D_i + rho_i E_i) + group_pk^challenge, so the two
\* scalars differ by the difference of the two sets' nonce sums.
C3_SubsetsAgreeUpToNonces ==
    (/\ AggregateReturned
     /\ Len(signing_set) = Threshold
     /\ tamper.delta = 0
     /\ InterpolatedOverSigningSet)
        => \A S \in ThresholdSets :
               LET s_S == IF S = Members(signing_set) THEN signature.s
                          ELSE SessionAggregate(S)
                   R_S == compute_group_commitment(CommitmentsOf(S), binding_factors)
               IN  /\ signature.R = group_commitment
                   /\ GMul(frost.generator, s_S)
                          = GAdd(R_S, GMul(frost.group_pk, challenge))

\* a session in which another signer set aggregates to another scalar
C3_Witness ==
    /\ AggregateReturned
    /\ Len(signing_set) = Threshold
    /\ tamper.delta = 0
    /\ InterpolatedOverSigningSet
    /\ challenge # 0
    /\ \E S \in ThresholdSets : SessionAggregate(S) # signature.s

\* whether the shares as the signers computed them verify
UntamperedVerifies ==
    verify(frost, [R |-> group_commitment, s |-> signature_aggregate(signature_shares)],
           challenge)

\* C4: when one share of a set of shares that verifies is changed by a non-zero
\* scalar before signature_aggregate, verify returns false (it returns, it does not
\* fail).
C4_TamperedShareRejected ==
    (VerifyReturned /\ tamper.delta # 0 /\ UntamperedVerifies)
        => (verification_result = FALSE /\ pc = "Rejected")

\* a rejected signature whose shares verified before one was changed
C4_Witness ==
    /\ pc = "Rejected"
    /\ tamper.delta # 0
    /\ UntamperedVerifies
    /\ Len(signing_set) = TotalSigners

\* the commitment list is taken over one signer set S with |S| >= Threshold and the
\* binding factors at hand are those compute_binding_factors derives from that list
BindingFactorsOverCommittedSet ==
    /\ \E S \in SignerSets : commitments = CommitmentsOf(S)
    /\ binding_factors = compute_binding_factors(frost.group_pk, commitments, message)

\* the group commitment, the interpolation set and the aggregated shares are taken
\* over the signer set of the commitment list
SessionOverCommittedSet ==
    /\ BindingFactorsOverCommittedSet
    /\ commitments = CommitmentsOf(Members(signing_set))
    /\ InterpolatedOverSigningSet
    /\ tamper.delta = 0

\* C13: for every signer set S with |S| >= t (blind signers included), a session whose
\* commitment list, binding factors stored by update_binding_factors, group
\* commitment, challenge, interpolation set and aggregated shares are all taken over
\* exactly S does not fail on the way, and Frost::verify returns true at its end.
C13_AnySignerSetVerifies ==
    /\ (pc = "Panicked") => ~BindingFactorsOverCommittedSet
    /\ (VerifyReturned /\ SessionOverCommittedSet) => verification_result = TRUE

-----------------------------------------------------------------------------
(* Properties of the signers' methods called directly, under SpecApi *)

\* C5: no signer computes a signature share before its binding factor has been
\* derived and stored: no sign call happens before store_rho.
C5_NoShareBeforeBindingFactor ==
    \A call \in sign_calls : call.rho_stored

\* C6: a signer's nonces d and e are single-use: the same (d, e) pair never produces
\* a second signature share for another challenge.
C6_NoncesSingleUse ==
    \A a, b \in sign_calls :
        (a.identifier = b.identifier /\ a.d = b.d /\ a.e = b.e)
            => a.challenge = b.challenge

=============================================================================
